---- MODULE Spec2Model ----
(***************************************************************************)
(* Model of the two structural directives of @angular/common that the      *)
(* repository vendors: NgIf (ng_if.mjs) and NgForOf with its               *)
(* NgForOfContext (ng_for_of.mjs).  JavaScript values are strings, the     *)
(* view container is the sequence of its embedded views, and every setter  *)
(* or lifecycle hook is one action.  The two data files follow: the Sass   *)
(* Loader options schema (options.json) and the CSS feature list.          *)
(***************************************************************************)
EXTENDS Integers, Sequences, FiniteSets, TLC

VARIABLES
    ngIfDir,    \* the NgIf instance: its fields and its view container
    ifLast,     \* the last NgIf call: setter, argument, whether it threw, state before
    ngForDir,   \* the NgForOf instance: its fields, its differ and its view container
    forLast,    \* the last NgForOf call: what it was, the host calls it made, state before
    probe,      \* an NgForOfContext under test, and what its getters returned
    ngDevMode,  \* the global ngDevMode of the build the directives run in
    validation, \* a Sass Loader options object and the verdict of its validation
    lookup      \* the CSS feature list as a consumer reads it: a find by id, a record

vars == <<ngIfDir, ifLast, ngForDir, forLast, probe, ngDevMode, validation, lookup>>

(***************************************************************************)
(* JavaScript values and their coercion to Boolean.                        *)
(***************************************************************************)
FalsyValues == {"null", "undefined", "false", "0", "", "NaN"}

Truthy(v) == v \notin FalsyValues

\* Two TemplateRef instances the host can hand to the directive.
TemplateRefs == {"T1", "T2"}

\* v.createEmbeddedView for a truthy v: a TemplateRef has the method, an
\* object may carry the member with a falsy value, anything else lacks it.
HasMember_createEmbeddedView(v) == v \in TemplateRefs \cup {"objNullMember"}

Member_createEmbeddedView(v) ==
    IF v \in TemplateRefs THEN "function"
    ELSE IF v = "objNullMember" THEN "null"
    ELSE "undefined"

\* What a caller can bind to ngIf.
ConditionValues == {"null", "undefined", "false", "true", "user"}

\* What a caller can bind to ngIfThen / ngIfElse: nothing, a falsy value that
\* is not null, a TemplateRef, and truthy values that are no TemplateRef.
TemplateInputs ==
    {"null", "undefined", "false"} \cup TemplateRefs \cup {"plainObject", "objNullMember"}

(***************************************************************************)
(* The host's ViewContainerRef: a sequence of embedded views.  A view is   *)
(* [id, templateRef, context]; a new view's id differs from the id of      *)
(* every view that is live during the call.                                *)
(***************************************************************************)
NullView == 0

ViewIds(vc) == {vc[i].id : i \in 1..Len(vc)}

FreshViewId(live) == CHOOSE n \in 1..(Cardinality(live) + 1) : n \notin live

VC_clear(vc) == <<>>

\* createEmbeddedView(templateRef, context) without an index appends.
VC_append(vc, templateRef, context, live) ==
    Append(vc, [id |-> FreshViewId(live \cup ViewIds(vc)),
                templateRef |-> templateRef,
                context |-> context])

(***************************************************************************)
(* NgIf                                                                    *)
(***************************************************************************)
NgIfContext == [implicit |-> "null", ngIf |-> "null"]

\* The view NgIf creates holds a reference to the directive's one context
\* object, not a copy of it.
ThisContext == "this._context"

NgIf_new(templateRef) ==
    [context         |-> NgIfContext,
     thenTemplateRef |-> templateRef,
     elseTemplateRef |-> "null",
     thenViewRef     |-> NullView,
     elseViewRef     |-> NullView,
     viewContainer   |-> <<>>]

\* isTemplateRefOrNull of assertTemplate: FALSE means the call throws.
assertTemplate(templateRef) ==
    \/ ~Truthy(templateRef)
    \/ Truthy(Member_createEmbeddedView(templateRef))

\* _updateView, truthy branch with no then-view: clear, forget the else-view,
\* render the then-template if there is one.
renderThen(self, live) ==
    LET cleared == [self EXCEPT !.viewContainer = VC_clear(self.viewContainer),
                                !.elseViewRef = NullView]
    IN  IF Truthy(cleared.thenTemplateRef)
        THEN LET vc == VC_append(cleared.viewContainer,
                                 cleared.thenTemplateRef, ThisContext, live)
             IN  [cleared EXCEPT !.viewContainer = vc, !.thenViewRef = vc[Len(vc)].id]
        ELSE cleared

\* _updateView, falsy branch with no else-view: clear without rendering anything
\* in place of the then-view (renderElse with clear() left out).
renderElse_keepsThenView(self, live) ==
    LET kept == [self EXCEPT !.thenViewRef = NullView]
    IN  IF Truthy(kept.elseTemplateRef)
        THEN LET vc == VC_append(kept.viewContainer,
                                 kept.elseTemplateRef, ThisContext, live)
             IN  [kept EXCEPT !.viewContainer = vc, !.elseViewRef = vc[Len(vc)].id]
        ELSE kept

\* _updateView, falsy branch with no else-view: clear, forget the then-view,
\* render the else-template if there is one.
renderElse(self, live) ==
    LET cleared == [self EXCEPT !.viewContainer = VC_clear(self.viewContainer),
                                !.thenViewRef = NullView]
    IN  IF Truthy(cleared.elseTemplateRef)
        THEN LET vc == VC_append(cleared.viewContainer,
                                 cleared.elseTemplateRef, ThisContext, live)
             IN  [cleared EXCEPT !.viewContainer = vc, !.elseViewRef = vc[Len(vc)].id]
        ELSE cleared

\* _updateView on the directive `self`; `live` are the views live at the call.
updateView(self, live) ==
    IF Truthy(self.context.implicit)
    THEN IF self.thenViewRef = NullView THEN renderThen(self, live) ELSE self
    ELSE IF self.elseViewRef = NullView THEN renderElse(self, live) ELSE self

\* A setter's outcome: whether it threw, and the directive after it.
Returned(self) == [threw |-> FALSE, self |-> self]
Thrown(self) == [threw |-> TRUE, self |-> self]

\* set ngIf with the assignment to context.ngIf left out (a faulty set_ngIf).
set_ngIf_implicitOnly(self, condition) ==
    Returned(updateView([self EXCEPT !.context.implicit = condition],
                        ViewIds(self.viewContainer)))

\* set ngIf(condition)
set_ngIf(self, condition) ==
    Returned(updateView([self EXCEPT !.context = [implicit |-> condition,
                                                  ngIf |-> condition]],
                        ViewIds(self.viewContainer)))

\* set ngIfThen without `this._thenViewRef = null` (a faulty set_ngIfThen).
set_ngIfThen_keepsViewRef(self, templateRef) ==
    IF ~assertTemplate(templateRef) THEN Thrown(self)
    ELSE Returned(updateView([self EXCEPT !.thenTemplateRef = templateRef],
                             ViewIds(self.viewContainer)))

\* set ngIfThen(templateRef)
set_ngIfThen(self, templateRef) ==
    IF ~assertTemplate(templateRef) THEN Thrown(self)
    ELSE Returned(updateView([self EXCEPT !.thenTemplateRef = templateRef,
                                          !.thenViewRef = NullView],
                             ViewIds(self.viewContainer)))

\* set ngIfElse storing the template before asserting it (a faulty set_ngIfElse).
set_ngIfElse_assignsFirst(self, templateRef) ==
    IF ~assertTemplate(templateRef)
    THEN Thrown([self EXCEPT !.elseTemplateRef = templateRef])
    ELSE Returned(updateView([self EXCEPT !.elseTemplateRef = templateRef,
                                          !.elseViewRef = NullView],
                             ViewIds(self.viewContainer)))

\* set ngIfElse without `this._elseViewRef = null` (a faulty set_ngIfElse).
set_ngIfElse_keepsViewRef(self, templateRef) ==
    IF ~assertTemplate(templateRef) THEN Thrown(self)
    ELSE Returned(updateView([self EXCEPT !.elseTemplateRef = templateRef],
                             ViewIds(self.viewContainer)))

\* set ngIfElse(templateRef)
set_ngIfElse(self, templateRef) ==
    IF ~assertTemplate(templateRef) THEN Thrown(self)
    ELSE Returned(updateView([self EXCEPT !.elseTemplateRef = templateRef,
                                          !.elseViewRef = NullView],
                             ViewIds(self.viewContainer)))

\* The call just made, for the properties that speak of "after the setter".
IfCall(op, arg, result) ==
    [op |-> op, arg |-> arg, threw |-> result.threw, pre |-> ngIfDir]

NgIf_ngIf ==
    \E condition \in ConditionValues :
        LET result == set_ngIf(ngIfDir, condition)
        IN  /\ ngIfDir' = result.self
            /\ ifLast' = IfCall("ngIf", condition, result)
            /\ UNCHANGED <<ngForDir, forLast, probe, ngDevMode, validation, lookup>>

NgIf_ngIfThen ==
    \E templateRef \in TemplateInputs :
        LET result == set_ngIfThen(ngIfDir, templateRef)
        IN  /\ ngIfDir' = result.self
            /\ ifLast' = IfCall("ngIfThen", templateRef, result)
            /\ UNCHANGED <<ngForDir, forLast, probe, ngDevMode, validation, lookup>>

NgIf_ngIfElse ==
    \E templateRef \in TemplateInputs :
        LET result == set_ngIfElse(ngIfDir, templateRef)
        IN  /\ ngIfDir' = result.self
            /\ ifLast' = IfCall("ngIfElse", templateRef, result)
            /\ UNCHANGED <<ngForDir, forLast, probe, ngDevMode, validation, lookup>>

InitNgIf ==
    /\ \E templateRef \in TemplateRefs : ngIfDir = NgIf_new(templateRef)
    /\ ifLast = [op |-> "new", arg |-> "null", threw |-> FALSE, pre |-> ngIfDir]

(***************************************************************************)
(* Properties of NgIf                                                      *)
(***************************************************************************)
Condition == ngIfDir.context.implicit

\* The container holds exactly the one view `viewRef`, created from `templateRef`.
Shows(templateRef, viewRef) ==
    /\ Len(ngIfDir.viewContainer) = 1
    /\ ngIfDir.viewContainer[1].templateRef = templateRef
    /\ ngIfDir.viewContainer[1].id = viewRef
    /\ viewRef # NullView

\* No then-view while the condition is falsy, no else-view while it is truthy.
NoViewOfOtherBranch ==
    /\ ~Truthy(Condition) =>
          /\ ngIfDir.thenViewRef = NullView
          /\ ViewIds(ngIfDir.viewContainer) \subseteq {ngIfDir.elseViewRef}
    /\ Truthy(Condition) =>
          /\ ngIfDir.elseViewRef = NullView
          /\ ViewIds(ngIfDir.viewContainer) \subseteq {ngIfDir.thenViewRef}

\* "non-null" read as JavaScript's `!= null`: neither null nor undefined.
NonNull(v) == v \notin {"null", "undefined"}

\* C1 as stated: after any sequence of setter calls the container holds a view
\* of the current then-template when the condition is truthy and the
\* then-template is non-null, a view of the current else-template when the
\* condition is falsy and the else-template is non-null, and never a view of
\* the other branch.
C1_AsStated ==
    /\ (Truthy(Condition) /\ NonNull(ngIfDir.thenTemplateRef))
          => Shows(ngIfDir.thenTemplateRef, ngIfDir.thenViewRef)
    /\ (~Truthy(Condition) /\ NonNull(ngIfDir.elseTemplateRef))
          => Shows(ngIfDir.elseTemplateRef, ngIfDir.elseViewRef)
    /\ NoViewOfOtherBranch

\* C1 amended: the same with "non-null" replaced by "truthy": the container
\* holds a view of the current then-template when the condition and the
\* then-template are truthy, a view of the current else-template when the
\* condition is falsy and the else-template truthy, is empty when the template
\* of the branch is falsy, and never holds a view of the other branch.
C1_ViewFollowsCondition ==
    /\ (Truthy(Condition) /\ Truthy(ngIfDir.thenTemplateRef))
          => Shows(ngIfDir.thenTemplateRef, ngIfDir.thenViewRef)
    /\ (~Truthy(Condition) /\ Truthy(ngIfDir.elseTemplateRef))
          => Shows(ngIfDir.elseTemplateRef, ngIfDir.elseViewRef)
    /\ (Truthy(Condition) /\ ~Truthy(ngIfDir.thenTemplateRef))
          => ngIfDir.viewContainer = <<>>
    /\ (~Truthy(Condition) /\ ~Truthy(ngIfDir.elseTemplateRef))
          => ngIfDir.viewContainer = <<>>
    /\ NoViewOfOtherBranch

\* C1 witness: the condition went from truthy to falsy with both templates
\* set, and the else-view replaced the then-view.
C1_Witness ==
    /\ ifLast.op = "ngIf" /\ ~Truthy(Condition)
    /\ Truthy(ifLast.pre.context.implicit)
    /\ ifLast.pre.thenViewRef # NullView
    /\ Truthy(ngIfDir.elseTemplateRef)
    /\ Shows(ngIfDir.elseTemplateRef, ngIfDir.elseViewRef)

\* C2: the default else template is blank: with a falsy condition and the
\* else-template null (never set, or set to null) the container is empty
\* after every setter call.
C2_DefaultElseIsBlank ==
    (~Truthy(Condition) /\ ngIfDir.elseTemplateRef = "null")
        => ngIfDir.viewContainer = <<>>

\* C2 witness: a then-view was shown, the condition became falsy with no
\* else-template, and the container is empty.
C2_Witness ==
    /\ ifLast.op = "ngIf" /\ ~ifLast.threw
    /\ ~Truthy(Condition) /\ ngIfDir.elseTemplateRef = "null"
    /\ Len(ifLast.pre.viewContainer) = 1
    /\ ifLast.pre.thenViewRef # NullView
    /\ ngIfDir.viewContainer = <<>>

\* C3: the template can be changed at runtime: after ngIfThen is set to a
\* TemplateRef while the condition is truthy, or ngIfElse while it is falsy,
\* the container holds exactly one view, created from the new template, and
\* it is none of the views shown before the call.
C3_TemplateChangeRerenders ==
    /\ (ifLast.op = "ngIfThen" /\ ifLast.arg \in TemplateRefs /\ Truthy(Condition))
          => /\ Shows(ifLast.arg, ngIfDir.thenViewRef)
             /\ ngIfDir.thenViewRef \notin ViewIds(ifLast.pre.viewContainer)
    /\ (ifLast.op = "ngIfElse" /\ ifLast.arg \in TemplateRefs /\ ~Truthy(Condition))
          => /\ Shows(ifLast.arg, ngIfDir.elseViewRef)
             /\ ngIfDir.elseViewRef \notin ViewIds(ifLast.pre.viewContainer)

\* C3 witness: the else-template was swapped for another one while its view
\* was shown.
C3_Witness ==
    /\ ifLast.op = "ngIfElse" /\ ifLast.arg \in TemplateRefs /\ ~Truthy(Condition)
    /\ Len(ifLast.pre.viewContainer) = 1
    /\ ifLast.pre.viewContainer[1].templateRef # ifLast.arg
    /\ ifLast.pre.elseViewRef # NullView

\* C4: the condition is stored in the context: after set ngIf(v) both
\* $implicit and ngIf are v, every view holds that context object, the two
\* fields agree in every state, no other setter touches them, and both are
\* null after construction.
C4_ConditionInContext ==
    /\ ngIfDir.context.implicit = ngIfDir.context.ngIf
    /\ ifLast.op = "ngIf" =>
          /\ ngIfDir.context.implicit = ifLast.arg
          /\ ngIfDir.context.ngIf = ifLast.arg
    /\ ifLast.op # "ngIf" => ngIfDir.context = ifLast.pre.context
    /\ ifLast.op = "new" => ngIfDir.context.ngIf = "null"
    /\ \A i \in 1..Len(ngIfDir.viewContainer) :
          ngIfDir.viewContainer[i].context = ThisContext

\* C4 witness: a truthy, non-Boolean condition was assigned and a view shows it.
C4_Witness ==
    /\ ifLast.op = "ngIf" /\ ifLast.arg = "user"
    /\ ngIfDir.context.ngIf = "user"
    /\ Len(ngIfDir.viewContainer) = 1

\* C5 as stated: a template setter throws exactly when its argument is truthy
\* and has no createEmbeddedView member, and a throwing call changes nothing.
C5_AsStated ==
    ifLast.op \in {"ngIfThen", "ngIfElse"} =>
        /\ ifLast.threw <=>
              (Truthy(ifLast.arg) /\ ~HasMember_createEmbeddedView(ifLast.arg))
        /\ ifLast.threw => ngIfDir = ifLast.pre

\* C5 amended: a template setter throws exactly when its argument is truthy
\* and its createEmbeddedView member is missing or falsy, and a throwing call
\* leaves the template references, the view references and the container
\* unchanged.
C5_ThrowsOnNonTemplate ==
    ifLast.op \in {"ngIfThen", "ngIfElse"} =>
        /\ ifLast.threw <=>
              /\ ifLast.arg \notin FalsyValues
              /\ \/ ~HasMember_createEmbeddedView(ifLast.arg)
                 \/ Member_createEmbeddedView(ifLast.arg) \in FalsyValues
        /\ ifLast.threw => ngIfDir = ifLast.pre

\* C5 witness: ngIfElse threw on an object that is no TemplateRef while a
\* view was shown, and the view is still there.
C5_Witness ==
    /\ ifLast.op = "ngIfElse" /\ ifLast.threw /\ ifLast.arg = "plainObject"
    /\ Len(ngIfDir.viewContainer) = 1
    /\ ngIfDir = ifLast.pre

(***************************************************************************)
(* NgForOfContext                                                          *)
(***************************************************************************)
\* JavaScript's %: the remainder takes the sign of the dividend.
JsRemainder(a, b) == IF a >= 0 THEN a % b ELSE -((-a) % b)

NgForOfContext(implicit, ngForOf, index, count) ==
    [implicit |-> implicit, ngForOf |-> ngForOf, index |-> index, count |-> count]

first(context) == context.index = 0

\* last comparing against count instead of count - 1 (a faulty last).
last_offByOne(context) == context.index = context.count

last(context) == context.index = context.count - 1

even(context) == JsRemainder(context.index, 2) = 0

\* odd as `index % 2 === 1` (a faulty odd: the remainder of -1 is -1).
odd_remainderIsOne(context) == JsRemainder(context.index, 2) = 1

odd(context) == ~even(context)

\* The getters of a context, read together.
Getters(context) ==
    [first |-> first(context), last |-> last(context),
     even |-> even(context), odd |-> odd(context)]

MaxIndex == 5

IndexValues == (-MaxIndex)..MaxIndex

\* index and count are public fields: any integers can be assigned to them.
Context_assign ==
    \E index \in IndexValues, count \in IndexValues :
        /\ probe' = [context |-> [probe.context EXCEPT !.index = index, !.count = count],
                     read |-> FALSE,
                     getters |-> probe.getters]
        /\ UNCHANGED <<ngIfDir, ifLast, ngForDir, forLast, ngDevMode, validation, lookup>>

Context_read ==
    /\ ~probe.read
    /\ probe' = [probe EXCEPT !.read = TRUE, !.getters = Getters(probe.context)]
    /\ UNCHANGED <<ngIfDir, ifLast, ngForDir, forLast, ngDevMode, validation, lookup>>

InitContext ==
    probe = [context |-> NgForOfContext([key |-> "k1", inst |-> "a"], "A", -1, -1),
             read |-> FALSE,
             getters |-> [first |-> FALSE, last |-> FALSE, even |-> FALSE, odd |-> FALSE]]

\* C9: for all integers index and count: first iff index = 0, last iff
\* index = count - 1, even iff index is a multiple of 2, odd iff not even, so
\* exactly one of even and odd holds, for negative indices too.
C9_ContextGetters ==
    probe.read =>
        /\ probe.getters.first <=> (probe.context.index = 0)
        /\ probe.getters.last <=> (probe.context.index + 1 = probe.context.count)
        /\ probe.getters.even <=> (\E k \in IndexValues : probe.context.index = 2 * k)
        /\ probe.getters.odd <=> ~probe.getters.even
        /\ probe.getters.odd # probe.getters.even

\* C9 witness: the getters were read on the placeholder context (index -1,
\* count -1): odd, not even, neither first nor last.
C9_Witness ==
    /\ probe.read
    /\ probe.context.index = -1 /\ probe.context.count = -1
    /\ probe.getters = [first |-> FALSE, last |-> FALSE, even |-> FALSE, odd |-> TRUE]

(***************************************************************************)
(* Iterables and items.  An item is an object: `key` is what a trackBy     *)
(* function reads from it, `inst` tells apart two objects with the same    *)
(* key.  An iterable is an array object: `ref` is its identity, `items`    *)
(* its present contents; the null binding has ref "null".                  *)
(***************************************************************************)
MaxLen == 3

Items == {[key |-> "k1", inst |-> "a"], [key |-> "k1", inst |-> "b"],
          [key |-> "k2", inst |-> "a"]}

\* The arrays bound to the directive hold distinct objects (two of them may
\* still have the same key).
ItemSeqs ==
    {seq \in UNION {[1..n -> Items] : n \in 0..MaxLen} :
        \A i, j \in 1..Len(seq) : seq[i] = seq[j] => i = j}

NullIterable == [ref |-> "null", items |-> <<>>]

UndefinedIterable == [ref |-> "undefined", items |-> <<>>]

ArrayRefs == {"A", "B"}

\* A truthy value that is no iterable: an object literal.
NonIterables == {[ref |-> "plainObject", items |-> <<>>]}

\* What a caller can bind to ngForOf.
Iterables ==
    {NullIterable, UndefinedIterable} \cup NonIterables
        \cup [ref : ArrayRefs, items : ItemSeqs]

\* The values the build can give the global ngDevMode: not defined, the
\* object of a development build, false in a production build.
DevModes == {"undefined", "true", "false"}

\* What a caller can bind to ngForTrackBy: nothing, or a function of the key.
TrackByInputs == {"undefined", "byKey"}

\* What a caller can bind to ngForTemplate: nothing, or the TemplateRef of the
\* host element (NgForOf hands its template on and never looks into it).
ForTemplateRefs == {"T1"}

ForTemplateInputs == {"null"} \cup ForTemplateRefs

(***************************************************************************)
(* The host's ViewContainerRef, indexed from 0 as in the source.           *)
(***************************************************************************)
NullIndex == -1

InsertAt(seq, index, x) ==
    SubSeq(seq, 1, index) \o <<x>> \o SubSeq(seq, index + 1, Len(seq))

RemoveAt(seq, index) ==
    SubSeq(seq, 1, index) \o SubSeq(seq, index + 2, Len(seq))

VC_get(vc, index) == vc[index + 1]

\* createEmbeddedView(templateRef, context, index): at `index`, appended
\* when the index is undefined.
VC_createEmbeddedView(vc, templateRef, context, index, live) ==
    InsertAt(vc, IF index = NullIndex THEN Len(vc) ELSE index,
             [id |-> FreshViewId(live \cup ViewIds(vc)),
              templateRef |-> templateRef,
              context |-> context])

\* remove(index): the last view when the index is undefined.
VC_remove(vc, index) ==
    RemoveAt(vc, IF index = NullIndex THEN Len(vc) - 1 ELSE index)

\* move(view, currentIndex)
VC_move(vc, view, currentIndex) ==
    LET from == CHOOSE i \in 0..(Len(vc) - 1) : vc[i + 1].id = view.id
    IN  InsertAt(RemoveAt(vc, from), currentIndex, vc[from + 1])

(***************************************************************************)
(* The host's IterableDiffer.  It remembers the collection it saw last as  *)
(* records [item, trackById]; diff() returns null when the tracking ids    *)
(* and the items are those it remembers, and otherwise the changes: the    *)
(* operations that turn the remembered order into the new one, each with   *)
(* the index it applies at, and the records whose item was replaced by     *)
(* another object with the same tracking id.                               *)
(***************************************************************************)
NoDiffer == [trackByFn |-> "none", records |-> <<>>]

NoChanges == [operations |-> <<>>, identityChanges |-> <<>>]

\* The tracking id of an item: the item itself unless a trackBy function reads its key.
TrackById(trackByFn, index, item) ==
    IF trackByFn = "byKey" THEN [key |-> item.key, inst |-> "any"] ELSE item

\* differs.find(value) finds a differ factory for arrays and other iterables
\* and throws for any other value.
Differ_supports(value) == value.ref \in ArrayRefs

\* differ.diff(collection) reads null and undefined as the empty collection
\* and throws for any other value that is no iterable.
Differ_accepts(collection) == ~Truthy(collection.ref) \/ Differ_supports(collection)

\* differs.find(value).create(trackByFn): a falsy trackByFn tracks by identity.
Differ_create(trackByFn) ==
    [trackByFn |-> IF Truthy(trackByFn) THEN trackByFn ELSE "trackByIdentity",
     records   |-> <<>>]

\* The collection as the differ reads it: null is the empty collection.
Differ_read(differ, collection) ==
    [i \in 1..Len(collection.items) |->
        [item |-> collection.items[i],
         trackById |-> TrackById(differ.trackByFn, i - 1, collection.items[i])]]

RECURSIVE Differ_walk(_, _, _, _)
\* Position `index` of the new collection `now`, `work` being the remembered
\* records (each with its previousIndex) as the operations so far left them.
Differ_walk(work, now, index, changes) ==
    LET rest == {now[k].trackById : k \in (index + 1)..Len(now)}
    IN  IF index < Len(work) /\ work[index + 1].trackById \notin rest
        THEN \* the record at `index` is in the new collection no more
             Differ_walk(RemoveAt(work, index), now, index,
                 [changes EXCEPT !.operations = Append(@,
                     [item |-> work[index + 1].item,
                      previousIndex |-> work[index + 1].previousIndex,
                      adjustedPreviousIndex |-> index,
                      currentIndex |-> NullIndex])])
        ELSE IF index = Len(now) THEN changes
        ELSE LET found == {j \in index..(Len(work) - 1) :
                              work[j + 1].trackById = now[index + 1].trackById}
             IN  IF found = {}
                 THEN \* a new item
                      Differ_walk(
                          InsertAt(work, index,
                                   [item |-> now[index + 1].item,
                                    trackById |-> now[index + 1].trackById,
                                    previousIndex |-> NullIndex]),
                          now, index + 1,
                          [changes EXCEPT !.operations = Append(@,
                              [item |-> now[index + 1].item,
                               previousIndex |-> NullIndex,
                               adjustedPreviousIndex |-> NullIndex,
                               currentIndex |-> index])])
                 ELSE \* a remembered record, perhaps elsewhere, perhaps a new object
                      LET from == CHOOSE j \in found : \A k \in found : j <= k
                          record == [work[from + 1] EXCEPT !.item = now[index + 1].item]
                          moved == IF from = index THEN changes
                                   ELSE [changes EXCEPT !.operations = Append(@,
                                       [item |-> record.item,
                                        previousIndex |-> record.previousIndex,
                                        adjustedPreviousIndex |-> from,
                                        currentIndex |-> index])]
                          noted == IF work[from + 1].item = record.item THEN moved
                                   ELSE [moved EXCEPT !.identityChanges = Append(@,
                                       [item |-> record.item, currentIndex |-> index])]
                      IN  Differ_walk(InsertAt(RemoveAt(work, from), index, record),
                                      now, index + 1, noted)

\* differ.diff(collection): the differ after the call, and the changes
\* (NoChanges stands for the null it returns when nothing changed).
Differ_diff(differ, collection) ==
    LET now == Differ_read(differ, collection)
        work == [i \in 1..Len(differ.records) |->
                    [item |-> differ.records[i].item,
                     trackById |-> differ.records[i].trackById,
                     previousIndex |-> i - 1]]
    IN  [differ  |-> [differ EXCEPT !.records = now],
         changes |-> Differ_walk(work, now, 0, NoChanges)]

(***************************************************************************)
(* NgForOf                                                                 *)
(***************************************************************************)
NgForOf_new(template) ==
    [ngForOf       |-> NullIterable,
     ngForOfDirty  |-> TRUE,
     differ        |-> NoDiffer,
     trackByFn     |-> "undefined",
     template      |-> template,
     viewContainer |-> <<>>]

\* A call's outcome: the directive after it and the host calls it made.
\* An Error: its message, and the value and type name the message quotes.
Error(message, value, type) == [message |-> message, value |-> value, type |-> type]

NoError == Error("none", "none", "none")

Outcome(self, calls, applied) ==
    [threw |-> FALSE, error |-> NoError, self |-> self, calls |-> calls,
     applied |-> applied]

\* A call that threw `error`, the directive as the throw left it.
Throws(self, calls, error) ==
    [threw |-> TRUE, error |-> error, self |-> self, calls |-> calls,
     applied |-> FALSE]

\* type['name'] of the values bound to ngForOf: an array and an object
\* literal have no such member.
Member_name(type) == "undefined"

\* getTypeName(type)
getTypeName(type) ==
    IF Truthy(Member_name(type)) THEN Member_name(type) ELSE "object"

\* The Error ngDoCheck throws from its catch block.
CannotFindDiffer(value) ==
    Error("Cannot find a differ supporting object", value.ref, getTypeName(value))

\* The errors the host throws: differs.find for a value it has no differ
\* for, differ.diff for a value that is no iterable.
HostError_find(value) == Error("thrown by differs.find", value.ref, "none")

HostError_diff(value) == Error("thrown by differ.diff", value.ref, "none")

\* typeof ngDevMode === 'undefined' || ngDevMode
DevMode == ngDevMode = "undefined" \/ Truthy(ngDevMode)

\* set ngForOf emptying the view container at once (a faulty set_ngForOf).
set_ngForOf_clears(self, ngForOf) ==
    Outcome([self EXCEPT !.ngForOf = ngForOf, !.ngForOfDirty = TRUE,
                         !.viewContainer = VC_clear(self.viewContainer)],
            <<[fn |-> "clear", index |-> NullIndex]>>, FALSE)

\* set ngForOf(ngForOf)
set_ngForOf(self, ngForOf) ==
    Outcome([self EXCEPT !.ngForOf = ngForOf, !.ngForOfDirty = TRUE], <<>>, FALSE)

\* set ngForTrackBy(fn): the warning aside, it stores fn.
set_ngForTrackBy(self, fn) ==
    Outcome([self EXCEPT !.trackByFn = fn], <<>>, FALSE)

\* set ngForTemplate(value)
set_ngForTemplate(self, value) ==
    Outcome(IF Truthy(value) THEN [self EXCEPT !.template = value] ELSE self,
            <<>>, FALSE)

\* applyViewChange(view, record)
applyViewChange(view, record) == [view EXCEPT !.context.implicit = record.item]

\* ReplaceView: the container with the view of `view`'s id replaced by `view`.
VC_update(vc, view) ==
    [i \in 1..Len(vc) |-> IF vc[i].id = view.id THEN view ELSE vc[i]]

\* The callback with the insert index dropped: a new view is always appended
\* (a faulty applyOperation).
applyOperation_appends(self, acc, item, adjustedPreviousIndex, currentIndex, live) ==
    IF item.previousIndex = NullIndex
    THEN [vc |-> VC_createEmbeddedView(acc.vc, self.template,
                     NgForOfContext(item.item, self.ngForOf.ref, -1, -1),
                     NullIndex, live),
          calls |-> Append(acc.calls, [fn |-> "createEmbeddedView", index |-> NullIndex])]
    ELSE IF currentIndex = NullIndex
    THEN [vc |-> VC_remove(acc.vc, adjustedPreviousIndex),
          calls |-> Append(acc.calls, [fn |-> "remove", index |-> adjustedPreviousIndex])]
    ELSE IF adjustedPreviousIndex # NullIndex
    THEN LET view == VC_get(acc.vc, adjustedPreviousIndex)
         IN  [vc |-> VC_update(VC_move(acc.vc, view, currentIndex),
                               applyViewChange(view, item)),
              calls |-> Append(acc.calls, [fn |-> "move", index |-> currentIndex])]
    ELSE acc

\* The callback with a moved row torn down and rebuilt instead of moved
\* (a faulty applyOperation).
applyOperation_recreatesMoved(self, acc, item, adjustedPreviousIndex, currentIndex, live) ==
    IF item.previousIndex = NullIndex
    THEN [vc |-> VC_createEmbeddedView(acc.vc, self.template,
                     NgForOfContext(item.item, self.ngForOf.ref, -1, -1),
                     currentIndex, live),
          calls |-> Append(acc.calls, [fn |-> "createEmbeddedView", index |-> currentIndex])]
    ELSE IF currentIndex = NullIndex
    THEN [vc |-> VC_remove(acc.vc, adjustedPreviousIndex),
          calls |-> Append(acc.calls, [fn |-> "remove", index |-> adjustedPreviousIndex])]
    ELSE IF adjustedPreviousIndex # NullIndex
    THEN [vc |-> VC_createEmbeddedView(VC_remove(acc.vc, adjustedPreviousIndex),
                     self.template,
                     NgForOfContext(item.item, self.ngForOf.ref, -1, -1),
                     currentIndex, live),
          calls |-> acc.calls \o <<[fn |-> "remove", index |-> adjustedPreviousIndex],
                                   [fn |-> "createEmbeddedView", index |-> currentIndex]>>]
    ELSE acc

\* The callback _applyChanges hands to forEachOperation, on one operation.
\* `acc` is the container and the host calls made so far.
applyOperation(self, acc, item, adjustedPreviousIndex, currentIndex, live) ==
    IF item.previousIndex = NullIndex
    THEN [vc |-> VC_createEmbeddedView(acc.vc, self.template,
                     NgForOfContext(item.item, self.ngForOf.ref, -1, -1),
                     currentIndex, live),
          calls |-> Append(acc.calls, [fn |-> "createEmbeddedView", index |-> currentIndex])]
    ELSE IF currentIndex = NullIndex
    THEN [vc |-> VC_remove(acc.vc, adjustedPreviousIndex),
          calls |-> Append(acc.calls, [fn |-> "remove", index |-> adjustedPreviousIndex])]
    ELSE IF adjustedPreviousIndex # NullIndex
    THEN LET view == VC_get(acc.vc, adjustedPreviousIndex)
         IN  [vc |-> VC_update(VC_move(acc.vc, view, currentIndex),
                               applyViewChange(view, item)),
              calls |-> Append(acc.calls, [fn |-> "move", index |-> currentIndex])]
    ELSE acc

RECURSIVE forEachOperation(_, _, _, _, _)
\* changes.forEachOperation(fn): the operations in order, from the n-th on.
forEachOperation(self, acc, operations, n, live) ==
    IF n > Len(operations) THEN acc
    ELSE forEachOperation(self,
             applyOperation(self, acc, operations[n],
                            operations[n].adjustedPreviousIndex,
                            operations[n].currentIndex, live),
             operations, n + 1, live)

\* The loop without `context.count = ilen` (a faulty updateContexts).
updateContexts_keepsCount(self, vc) ==
    [i \in 1..Len(vc) |->
        [vc[i] EXCEPT !.context.index = i - 1,
                      !.context.ngForOf = self.ngForOf.ref]]

\* The loop of _applyChanges over the container: index, count and ngForOf
\* of every view's context.
updateContexts(self, vc) ==
    [i \in 1..Len(vc) |->
        [vc[i] EXCEPT !.context.index = i - 1,
                      !.context.count = Len(vc),
                      !.context.ngForOf = self.ngForOf.ref]]

\* forEachIdentityChange with the callback never invoked (a faulty
\* forEachIdentityChange).
forEachIdentityChange_skips(vc, identityChanges, n) == vc

RECURSIVE forEachIdentityChange(_, _, _)
\* changes.forEachIdentityChange(fn), fn being the callback of _applyChanges.
forEachIdentityChange(vc, identityChanges, n) ==
    IF n > Len(identityChanges) THEN vc
    ELSE forEachIdentityChange(
             VC_update(vc, applyViewChange(VC_get(vc, identityChanges[n].currentIndex),
                                           identityChanges[n])),
             identityChanges, n + 1)

\* _applyChanges(changes): the container after it and the host calls made.
applyChanges(self, changes, calls) ==
    LET live == ViewIds(self.viewContainer)
        acc == forEachOperation(self, [vc |-> self.viewContainer, calls |-> calls],
                                changes.operations, 1, live)
        vc == forEachIdentityChange(updateContexts(self, acc.vc),
                                    changes.identityChanges, 1)
    IN  Outcome([self EXCEPT !.viewContainer = vc], acc.calls, TRUE)

\* ngDoCheck, first half, with the differ stored before it is known to be
\* found and the failure swallowed (a faulty checkDirty).
checkDirty_swallows(self) ==
    IF self.ngForOfDirty
    THEN LET clean == [self EXCEPT !.ngForOfDirty = FALSE]
         IN  IF clean.differ = NoDiffer /\ Truthy(clean.ngForOf.ref)
             THEN Outcome([clean EXCEPT !.differ = Differ_create(clean.trackByFn)],
                          <<[fn |-> "differs.find.create", index |-> NullIndex]>>, FALSE)
             ELSE Outcome(clean, <<>>, FALSE)
    ELSE Outcome(self, <<>>, FALSE)

\* ngDoCheck, first half, without `this._ngForOfDirty = false` (a faulty
\* checkDirty).
checkDirty_keepsDirty(self) ==
    IF self.ngForOfDirty
    THEN IF self.differ = NoDiffer /\ Truthy(self.ngForOf.ref)
         THEN IF Differ_supports(self.ngForOf)
              THEN Outcome([self EXCEPT !.differ = Differ_create(self.trackByFn)],
                           <<[fn |-> "differs.find.create", index |-> NullIndex]>>,
                           FALSE)
              ELSE Throws(self,
                          <<[fn |-> "differs.find", index |-> NullIndex]>>,
                          IF DevMode THEN CannotFindDiffer(self.ngForOf)
                          ELSE HostError_find(self.ngForOf))
         ELSE Outcome(self, <<>>, FALSE)
    ELSE Outcome(self, <<>>, FALSE)

\* ngDoCheck, first half: the dirty flag and the creation of the differ.  In
\* a development build the failure of differs.find is caught and rethrown as
\* the directive's own Error; in a production build the host's error goes
\* through.
checkDirty(self) ==
    IF self.ngForOfDirty
    THEN LET clean == [self EXCEPT !.ngForOfDirty = FALSE]
         IN  IF clean.differ = NoDiffer /\ Truthy(clean.ngForOf.ref)
             THEN IF Differ_supports(clean.ngForOf)
                  THEN Outcome([clean EXCEPT !.differ = Differ_create(clean.trackByFn)],
                               <<[fn |-> "differs.find.create", index |-> NullIndex]>>,
                               FALSE)
                  ELSE Throws(clean,
                              <<[fn |-> "differs.find", index |-> NullIndex]>>,
                              IF DevMode THEN CannotFindDiffer(clean.ngForOf)
                              ELSE HostError_find(clean.ngForOf))
             ELSE Outcome(clean, <<>>, FALSE)
    ELSE Outcome(self, <<>>, FALSE)

\* ngDoCheck()
ngDoCheck(self) ==
    LET checked == checkDirty(self)
    IN  IF checked.threw THEN checked
        ELSE IF checked.self.differ # NoDiffer
        THEN LET diffed == Differ_diff(checked.self.differ, checked.self.ngForOf)
                 calls == Append(checked.calls, [fn |-> "diff", index |-> NullIndex])
                 after == [checked.self EXCEPT !.differ = diffed.differ]
             IN  IF ~Differ_accepts(checked.self.ngForOf)
                 THEN Throws(checked.self, calls, HostError_diff(checked.self.ngForOf))
                 ELSE IF diffed.changes # NoChanges
                 THEN applyChanges(after, diffed.changes, calls)
                 ELSE Outcome(after, calls, FALSE)
        ELSE checked

\* View objects are told apart by `id`, and only equality of ids matters.
\* At the start of a call the views are renumbered 1..n by position, so an id
\* of at most n is "the view that was at position id - 1 when the call
\* began" and a larger id is a view the call created.
Renumber(vc) == [i \in 1..Len(vc) |-> [vc[i] EXCEPT !.id = i]]

Entered(self) == [self EXCEPT !.viewContainer = Renumber(self.viewContainer)]

\* The call just made, for the properties that speak of "after ngDoCheck":
\* what it was, the host calls it made, whether _applyChanges ran, and the
\* container as the call found it.
ForCall(op, result) ==
    [op |-> op, threw |-> result.threw, error |-> result.error,
     calls |-> result.calls,
     applied |-> result.applied, pre |-> Entered(ngForDir).viewContainer]

NgForOf_ngForOf ==
    \E ngForOf \in Iterables :
        LET result == set_ngForOf(Entered(ngForDir), ngForOf)
        IN  /\ ngForDir' = result.self
            /\ forLast' = ForCall("ngForOf", result)
            /\ UNCHANGED <<ngIfDir, ifLast, probe, ngDevMode, validation, lookup>>

\* The application changes the bound array in place, without the setter.
Array_mutate ==
    \E items \in ItemSeqs :
        /\ ngForDir.ngForOf.ref \in ArrayRefs
        /\ items # ngForDir.ngForOf.items
        /\ ngForDir' = [Entered(ngForDir) EXCEPT !.ngForOf.items = items]
        /\ forLast' = ForCall("mutate", Outcome(ngForDir, <<>>, FALSE))
        /\ UNCHANGED <<ngIfDir, ifLast, probe, ngDevMode, validation, lookup>>

NgForOf_ngForTrackBy ==
    \E fn \in TrackByInputs :
        LET result == set_ngForTrackBy(Entered(ngForDir), fn)
        IN  /\ ngForDir' = result.self
            /\ forLast' = ForCall("ngForTrackBy", result)
            /\ UNCHANGED <<ngIfDir, ifLast, probe, ngDevMode, validation, lookup>>

NgForOf_ngForTemplate ==
    \E value \in ForTemplateInputs :
        LET result == set_ngForTemplate(Entered(ngForDir), value)
        IN  /\ ngForDir' = result.self
            /\ forLast' = ForCall("ngForTemplate", result)
            /\ UNCHANGED <<ngIfDir, ifLast, probe, ngDevMode, validation, lookup>>

NgForOf_ngDoCheck ==
    LET result == ngDoCheck(Entered(ngForDir))
    IN  /\ ngForDir' = result.self
        /\ forLast' = ForCall("ngDoCheck", result)
        /\ UNCHANGED <<ngIfDir, ifLast, probe, ngDevMode, validation, lookup>>

InitNgForOf ==
    /\ \E template \in ForTemplateRefs : ngForDir = NgForOf_new(template)
    /\ ngDevMode \in DevModes
    /\ forLast = [op |-> "new", threw |-> FALSE, error |-> NoError, calls |-> <<>>,
                  applied |-> FALSE, pre |-> <<>>]

(***************************************************************************)
(* Properties of NgForOf                                                   *)
(***************************************************************************)
Implicits(vc) == [i \in 1..Len(vc) |-> vc[i].context.implicit]

\* The tracking id the differ of the directive gives an item.
Tracked(item) == TrackById(ngForDir.differ.trackByFn, 0, item)

CallsOf(fn) == {n \in 1..Len(forLast.calls) : forLast.calls[n].fn = fn}

\* The views of the container that the last call created.
CreatedViews ==
    {i \in 1..Len(ngForDir.viewContainer) :
        ngForDir.viewContainer[i].id > Len(forLast.pre)}

ChangesApplied == forLast.op = "ngDoCheck" /\ ~forLast.threw /\ forLast.applied

\* C6: change propagation: after an ngDoCheck in which the differ reported
\* changes the $implicit values of the views, in container order, are the
\* items of the bound iterable; a view that was there before still shows the
\* item with the tracking id it showed (reordered items take their views
\* along), an item that was not shown before has a new view, and the view of
\* an item that is gone is gone.
C6_ChangePropagation ==
    ChangesApplied =>
        LET vc == ngForDir.viewContainer
            before == {Tracked(forLast.pre[k].context.implicit) :
                          k \in 1..Len(forLast.pre)}
            now == {Tracked(ngForDir.ngForOf.items[k]) :
                          k \in 1..Len(ngForDir.ngForOf.items)}
        IN  /\ Implicits(vc) = ngForDir.ngForOf.items
            /\ \A i, j \in 1..Len(vc) : vc[i].id = vc[j].id => i = j
            /\ \A i \in 1..Len(vc) :
                  IF i \in CreatedViews
                  THEN TRUE
                  ELSE Tracked(forLast.pre[vc[i].id].context.implicit)
                          = Tracked(vc[i].context.implicit)
            /\ \A i \in 1..Len(vc) :
                  Tracked(vc[i].context.implicit) \notin before => i \in CreatedViews
            /\ \A k \in 1..Len(forLast.pre) :
                  Tracked(forLast.pre[k].context.implicit) \notin now
                      => k \notin ViewIds(vc)

\* C6 witness: one ngDoCheck moved a view and created another, and the three
\* views show the three items of the array.
C6_Witness ==
    /\ ChangesApplied
    /\ CallsOf("move") # {} /\ CallsOf("createEmbeddedView") # {}
    /\ Len(ngForDir.viewContainer) = 3
    /\ Implicits(ngForDir.viewContainer) = ngForDir.ngForOf.items

\* C7: in every state the _applyChanges calls lead to, the view at position
\* i has context.index = i and context.count = the length of the container,
\* so 0 <= index < count and no view keeps the placeholder -1.
C7_IndexAndCount ==
    \A i \in 1..Len(ngForDir.viewContainer) :
        LET context == ngForDir.viewContainer[i].context
        IN  /\ context.index = i - 1
            /\ context.count = Len(ngForDir.viewContainer)
            /\ 0 <= context.index /\ context.index < context.count

\* C7 witness: _applyChanges created a view in front of a view that was
\* there before, whose index therefore changed.
C7_Witness ==
    /\ ChangesApplied
    /\ 1 \in CreatedViews
    /\ Len(ngForDir.viewContainer) = 3
    /\ 3 \notin CreatedViews
    /\ ngForDir.viewContainer[3].context.index = 2

\* C8 as stated: after every ngDoCheck call the context.ngForOf of every view
\* is the value bound to the ngForOf input.
C8_AsStated ==
    (forLast.op = "ngDoCheck" /\ ~forLast.threw) =>
        \A i \in 1..Len(ngForDir.viewContainer) :
            ngForDir.viewContainer[i].context.ngForOf = ngForDir.ngForOf.ref

\* C10: whenever the container is not empty, exactly one view has first true,
\* the one at position 0, and exactly one has last true, the one at the last
\* position (the same view when there is only one).
C10_OneFirstOneLast ==
    LET vc == ngForDir.viewContainer
    IN  Len(vc) > 0 =>
            /\ {i \in 1..Len(vc) : first(vc[i].context)} = {1}
            /\ {i \in 1..Len(vc) : last(vc[i].context)} = {Len(vc)}

\* C10 witness: an ngDoCheck removed a view and left a single one, which is
\* both first and last.
C10_Witness ==
    /\ ChangesApplied
    /\ CallsOf("remove") # {}
    /\ Len(ngForDir.viewContainer) = 1
    /\ first(ngForDir.viewContainer[1].context)
    /\ last(ngForDir.viewContainer[1].context)

\* The views of the container that were there when the last call began.
RetainedViews ==
    {i \in 1..Len(ngForDir.viewContainer) :
        ngForDir.viewContainer[i].id <= Len(forLast.pre)}

\* How many of the items `items` have the tracking id `id`.
CountTracked(items, id) ==
    Cardinality({k \in 1..Len(items) : Tracked(items[k]) = id})

Min(a, b) == IF a <= b THEN a ELSE b

\* Two retained views stand in the other order than before the call.
Reordered ==
    \E i, j \in RetainedViews :
        i < j /\ ngForDir.viewContainer[i].id > ngForDir.viewContainer[j].id

DoCheckReturned == forLast.op = "ngDoCheck" /\ ~forLast.threw

\* C11 as stated, in its weakest reading: after an ngDoCheck a retained view
\* whose position in the container changed was moved with viewContainer.move,
\* so move was called.
C11_AsStated ==
    DoCheckReturned =>
        \A i \in RetainedViews :
            ngForDir.viewContainer[i].id # i => CallsOf("move") # {}

\* C11 amended: across an ngDoCheck every tracking id shown before and bound
\* after keeps its view objects (as many as it has items on both sides), a
\* retained view shows the tracking id it showed, move is called exactly when
\* retained views change their order relative to each other (a view that only
\* shifts because views before it were created or removed is not moved),
\* createEmbeddedView is called once for every item that has no retained view
\* and remove once for every view that is not retained.
C11_RetainedViews ==
    DoCheckReturned =>
        LET vc == ngForDir.viewContainer
            before == Implicits(forLast.pre)
            now == Implicits(vc)
            ids == {Tracked(item) : item \in Items}
        IN  /\ \A i \in RetainedViews :
                  Tracked(before[vc[i].id]) = Tracked(now[i])
            /\ \A id \in ids :
                  Cardinality({i \in RetainedViews : Tracked(now[i]) = id})
                      = Min(CountTracked(before, id), CountTracked(now, id))
            /\ (CallsOf("move") # {}) <=> Reordered
            /\ Cardinality(CallsOf("createEmbeddedView"))
                  = Len(vc) - Cardinality(RetainedViews)
            /\ CreatedViews = (1..Len(vc)) \ RetainedViews
            /\ Cardinality(CallsOf("remove"))
                  = Len(before) - Cardinality(RetainedViews)

\* C11 witness: an ngDoCheck reordered three rows: every view is retained,
\* move was called, and nothing was created or removed.
C11_Witness ==
    /\ ChangesApplied
    /\ Len(forLast.pre) = 3 /\ Len(ngForDir.viewContainer) = 3
    /\ RetainedViews = {1, 2, 3}
    /\ Reordered
    /\ CallsOf("move") # {}
    /\ CallsOf("createEmbeddedView") = {} /\ CallsOf("remove") = {}

\* What a trackBy function reads from the items, in order.
Keys(items) == [k \in 1..Len(items) |-> items[k].key]

\* C12: with a differ that tracks by the trackBy function, an ngDoCheck that
\* finds the items replaced by objects with the same keys in the same order
\* calls neither createEmbeddedView nor remove nor move, leaves every view at
\* its position, and each view's $implicit is the new object at that position.
C12_TrackByKeepsViews ==
    (/\ DoCheckReturned
     /\ ngForDir.differ.trackByFn = "byKey"
     /\ Keys(Implicits(forLast.pre)) = Keys(ngForDir.ngForOf.items))
        => /\ CallsOf("createEmbeddedView") = {}
           /\ CallsOf("remove") = {}
           /\ CallsOf("move") = {}
           /\ Len(ngForDir.viewContainer) = Len(forLast.pre)
           /\ \A i \in 1..Len(ngForDir.viewContainer) :
                 /\ ngForDir.viewContainer[i].id = i
                 /\ ngForDir.viewContainer[i].context.implicit
                       = ngForDir.ngForOf.items[i]

\* C12 witness: two rows tracked by key, the first item replaced by another
\* object with the same key: both views stayed and the first shows the new
\* object.
C12_Witness ==
    /\ ChangesApplied
    /\ ngForDir.differ.trackByFn = "byKey"
    /\ Len(forLast.pre) = 2
    /\ Keys(Implicits(forLast.pre)) = Keys(ngForDir.ngForOf.items)
    /\ forLast.pre[1].context.implicit # ngForDir.ngForOf.items[1]
    /\ ngForDir.viewContainer[1].id = 1
    /\ ngForDir.viewContainer[1].context.implicit = ngForDir.ngForOf.items[1]

\* C13: view updates happen only inside ngDoCheck: a step that is no
\* ngDoCheck call (one of the setters ngForOf, ngForTrackBy, ngForTemplate,
\* or the application changing the array) makes no call to the view container
\* or to the differ, and leaves the views, their contexts and the differ as
\* they were.
C13_ViewUpdatesOnlyInDoCheck ==
    [][forLast'.op # "ngDoCheck" =>
          /\ forLast'.calls = <<>>
          /\ ngForDir'.viewContainer = Renumber(ngForDir.viewContainer)
          /\ ngForDir'.differ = ngForDir.differ]_vars

\* C13 witness: the ngForOf setter was called while rows were shown, with an
\* iterable holding other items, and the views still show the old items.
C13_Witness ==
    /\ forLast.op = "ngForOf"
    /\ forLast.calls = <<>>
    /\ Len(ngForDir.viewContainer) = 2
    /\ ngForDir.viewContainer = forLast.pre
    /\ ngForDir.ngForOfDirty
    /\ Implicits(ngForDir.viewContainer) # ngForDir.ngForOf.items

\* The calls of the last call that went to the view container.
ViewContainerCalls ==
    {n \in 1..Len(forLast.calls) :
        forLast.calls[n].fn \in {"createEmbeddedView", "remove", "move", "clear"}}

DifferCreated == ngForDir.differ = NoDiffer /\ ngForDir'.differ # NoDiffer

\* The step is an ngDoCheck call that finds the dirty flag set, no differ
\* stored and a truthy ngForOf value.
QualifyingDoCheck ==
    /\ forLast'.op = "ngDoCheck"
    /\ ngForDir.ngForOfDirty
    /\ ngForDir.differ = NoDiffer
    /\ Truthy(ngForDir.ngForOf.ref)

\* The differ is the one created with the trackBy value the step found.
CreatedWithCurrentTrackBy ==
    /\ ngForDir'.differ # NoDiffer
    /\ ngForDir'.differ.trackByFn =
          (IF Truthy(ngForDir.trackByFn) THEN ngForDir.trackByFn ELSE "trackByIdentity")

\* An ngDoCheck while ngForOf is still null or undefined only clears the
\* dirty flag and does not throw.
NullDoCheckOnlyClearsDirty ==
    (/\ forLast'.op = "ngDoCheck"
     /\ ngForDir.differ = NoDiffer
     /\ ~Truthy(ngForDir.ngForOf.ref))
        => /\ ~forLast'.threw
           /\ forLast'.calls = <<>>
           /\ ngForDir' = [ngForDir EXCEPT !.ngForOfDirty = FALSE]

\* No differ and no view before a qualifying ngDoCheck.
NothingBeforeQualifyingDoCheck ==
    /\ ngForDir.differ = NoDiffer => ngForDir.viewContainer = <<>>
    /\ DifferCreated => QualifyingDoCheck
    /\ ViewContainerCalls' # {} => ngForDir'.differ # NoDiffer

\* C17 as stated: no differ is created and no view-container call is made
\* before the first ngDoCheck that finds the dirty flag set and ngForOf
\* truthy, an ngDoCheck while ngForOf is still null or undefined only clears
\* the flag, and at that first qualifying ngDoCheck the differ is created with
\* the ngForTrackBy value current then.
C17_AsStated ==
    [][/\ NothingBeforeQualifyingDoCheck
       /\ NullDoCheckOnlyClearsDirty
       /\ QualifyingDoCheck => CreatedWithCurrentTrackBy]_vars

\* C17 amended: the same, the differ being created at the first qualifying
\* ngDoCheck whose ngForOf value differs.find has a differ for, with the
\* ngForTrackBy value current at that call; a qualifying ngDoCheck whose value
\* is no iterable throws, clears the dirty flag and creates no differ.
C17_ReactsOnlyInDoCheck ==
    [][/\ NothingBeforeQualifyingDoCheck
       /\ NullDoCheckOnlyClearsDirty
       /\ DifferCreated => CreatedWithCurrentTrackBy
       /\ (QualifyingDoCheck /\ Differ_supports(ngForDir.ngForOf))
             => CreatedWithCurrentTrackBy
       /\ (QualifyingDoCheck /\ ~Differ_supports(ngForDir.ngForOf))
             => /\ forLast'.threw
                /\ ngForDir' = [ngForDir EXCEPT !.ngForOfDirty = FALSE]]_vars

\* C17 witness: an ngDoCheck created the differ, tracking by the function
\* bound to ngForTrackBy before that call, and rendered the rows.
C17_Witness ==
    /\ forLast.op = "ngDoCheck" /\ ~forLast.threw
    /\ \E n \in 1..Len(forLast.calls) : forLast.calls[n].fn = "differs.find.create"
    /\ ngForDir.trackByFn = "byKey"
    /\ ngForDir.differ.trackByFn = "byKey"
    /\ forLast.pre = <<>>
    /\ Len(ngForDir.viewContainer) = 2
    /\ ~ngForDir.ngForOfDirty

(***************************************************************************)
(* The Sass Loader options schema (options.json) and its validation.  A    *)
(* value is [kind, members]: `kind` is what the value is in JavaScript,    *)
(* `members` maps the keys of an object to their values.                   *)
(***************************************************************************)
NoMembers == [key \in {} |-> "none"]

Value(kind) == [kind |-> kind, members |-> NoMembers]

ValueKinds == {"string", "boolean", "number", "null", "array", "object", "function"}

\* The values an option can be given: one of each kind, and an object with a
\* member of its own.
OptionValues ==
    {Value(kind) : kind \in ValueKinds}
        \cup {[kind |-> "object",
               members |-> [key \in {"indentWidth"} |-> Value("number")]]}

\* options.json with every additionalProperties set to true (a faulty Schema).
Schema_additionalAllowed ==
    [title |-> "Sass Loader options",
     type |-> "object",
     properties |->
        [implementation |-> [anyOf |-> <<[type |-> "string"], [type |-> "object"]>>],
         sassOptions |-> [anyOf |-> <<[type |-> "object", additionalProperties |-> TRUE],
                                      [instanceof |-> "Function"]>>],
         additionalData |-> [anyOf |-> <<[type |-> "string"], [instanceof |-> "Function"]>>],
         sourceMap |-> [type |-> "boolean"],
         webpackImporter |-> [type |-> "boolean"],
         warnRuleAsWarning |-> [type |-> "boolean"]],
     additionalProperties |-> TRUE]

\* options.json, the description and link annotations left out.
Schema ==
    [title |-> "Sass Loader options",
     type |-> "object",
     properties |->
        [implementation |-> [anyOf |-> <<[type |-> "string"], [type |-> "object"]>>],
         sassOptions |-> [anyOf |-> <<[type |-> "object", additionalProperties |-> TRUE],
                                      [instanceof |-> "Function"]>>],
         additionalData |-> [anyOf |-> <<[type |-> "string"], [instanceof |-> "Function"]>>],
         sourceMap |-> [type |-> "boolean"],
         webpackImporter |-> [type |-> "boolean"],
         warnRuleAsWarning |-> [type |-> "boolean"]],
     additionalProperties |-> FALSE]

\* The keys an options object can carry: those of the schema and one more.
OptionKeys == DOMAIN Schema.properties \cup {"outputStyle"}

MaxOptions == 2

\* The options objects with at most MaxOptions keys.
OptionObjects ==
    {[kind |-> "object", members |-> members] :
        members \in UNION {[keys -> OptionValues] :
                              keys \in {k \in SUBSET OptionKeys :
                                           Cardinality(k) <= MaxOptions}}}

\* The JSON Schema type of a value: a function has none.
JsonType(data) == IF data.kind = "function" THEN "none" ELSE data.kind

\* The `instanceof` keyword: data instanceof the named constructor.
InstanceOf(data, constructor) ==
    \/ constructor = "Function" /\ data.kind = "function"
    \/ constructor = "Object" /\ data.kind \in {"object", "array", "function"}
    \/ constructor = "Array" /\ data.kind = "array"

RECURSIVE Validate(_, _)
\* JSON Schema validation of `data` against `schema`: every keyword the
\* schema carries must accept the data.
Validate(schema, data) ==
    /\ "type" \in DOMAIN schema => JsonType(data) = schema.type
    /\ "instanceof" \in DOMAIN schema => InstanceOf(data, schema.instanceof)
    /\ "anyOf" \in DOMAIN schema =>
          \E n \in 1..Len(schema.anyOf) : Validate(schema.anyOf[n], data)
    /\ ("properties" \in DOMAIN schema /\ data.kind = "object") =>
          \A key \in DOMAIN data.members \cap DOMAIN schema.properties :
              Validate(schema.properties[key], data.members[key])
    /\ ("additionalProperties" \in DOMAIN schema /\ data.kind = "object") =>
          \/ schema.additionalProperties
          \/ DOMAIN data.members \subseteq
                (IF "properties" \in DOMAIN schema
                 THEN DOMAIN schema.properties ELSE {})

\* The loader validates the options it is given against the schema.
Schema_validate ==
    /\ ~validation.done
    /\ validation' = [validation EXCEPT !.done = TRUE,
                                        !.valid = Validate(Schema, validation.options)]
    /\ UNCHANGED <<ngIfDir, ifLast, ngForDir, forLast, probe, ngDevMode, lookup>>

InitSchema ==
    \E options \in OptionObjects :
        validation = [options |-> options, done |-> FALSE, valid |-> FALSE]

\* The shape the claim declares for each option.
DeclaredKinds ==
    [implementation |-> {"string", "object"},
     sassOptions |-> {"object", "function"},
     additionalData |-> {"string", "function"},
     sourceMap |-> {"boolean"},
     webpackImporter |-> {"boolean"},
     warnRuleAsWarning |-> {"boolean"}]

\* C15: an options object is valid iff every key is one of implementation,
\* sassOptions, additionalData, sourceMap, webpackImporter, warnRuleAsWarning
\* and every present value has the declared shape; no key is required, so the
\* empty object is valid.
C15_SchemaValidity ==
    validation.done =>
        LET members == validation.options.members
        IN  /\ validation.valid <=>
                  /\ DOMAIN members \subseteq DOMAIN DeclaredKinds
                  /\ \A key \in DOMAIN members :
                        members[key].kind \in DeclaredKinds[key]
            /\ DOMAIN members = {} => validation.valid

\* C15 witness: an options object with a function for sassOptions and an
\* object for implementation was validated and found valid.
C15_Witness ==
    /\ validation.done /\ validation.valid
    /\ DOMAIN validation.options.members = {"sassOptions", "implementation"}
    /\ validation.options.members["sassOptions"].kind = "function"
    /\ validation.options.members["implementation"].kind = "object"

(***************************************************************************)
(* The CSS feature list (the default export of part_000).  Of a record the *)
(* model keeps the id and the stage as they are written, and of title,     *)
(* description and specification the JavaScript type of the value.         *)
(***************************************************************************)
\* A feature list with two records of one id, one of them at a stage out of
\* range (a faulty Features).
Features_sameIdTwice == <<
    [id |-> "all-property", title |-> "string", description |-> "string",
     specification |-> "string", stage |-> 4],
    [id |-> "all-property", title |-> "string", description |-> "string",
     specification |-> "string", stage |-> 5]
>>

Features == <<
    [id |-> "all-property", title |-> "string", description |-> "string",
     specification |-> "string", stage |-> 4],
    [id |-> "any-link-pseudo-class", title |-> "string", description |-> "string",
     specification |-> "string", stage |-> 2],
    [id |-> "blank-pseudo-class", title |-> "string", description |-> "string",
     specification |-> "string", stage |-> 1],
    [id |-> "break-properties", title |-> "string", description |-> "string",
     specification |-> "string", stage |-> 3],
    [id |-> "case-insensitive-attributes", title |-> "string", description |-> "string",
     specification |-> "string", stage |-> 2],
    [id |-> "color-adjust", title |-> "string", description |-> "string",
     specification |-> "string", stage |-> 2],
    [id |-> "color-contrast", title |-> "string", description |-> "string",
     specification |-> "string", stage |-> 1],
    [id |-> "color-functional-notation", title |-> "string", description |-> "string",
     specification |-> "string", stage |-> 1],
    [id |-> "color-mix", title |-> "string", description |-> "string",
     specification |-> "string", stage |-> -1],
    [id |-> "color-mod-function", title |-> "string", description |-> "string",
     specification |-> "string", stage |-> -1],
    [id |-> "container-queries", title |-> "string", description |-> "string",
     specification |-> "string", stage |-> 0],
    [id |-> "custom-media-queries", title |-> "string", description |-> "string",
     specification |-> "string", stage |-> 1],
    [id |-> "custom-properties", title |-> "string", description |-> "string",
     specification |-> "string", stage |-> 3],
    [id |-> "custom-property-sets", title |-> "string", description |-> "string",
     specification |-> "string", stage |-> -1],
    [id |-> "custom-selectors", title |-> "string", description |-> "string",
     specification |-> "string", stage |-> 1],
    [id |-> "dir-pseudo-class", title |-> "string", description |-> "string",
     specification |-> "string", stage |-> 2],
    [id |-> "double-position-gradients", title |-> "string", description |-> "string",
     specification |-> "string", stage |-> 2],
    [id |-> "environment-variables", title |-> "string", description |-> "string",
     specification |-> "string", stage |-> 0],
    [id |-> "fangsong-font-family", title |-> "string", description |-> "string",
     specification |-> "string", stage |-> 2],
    [id |-> "focus-visible-pseudo-class", title |-> "string", description |-> "string",
     specification |-> "string", stage |-> 2],
    [id |-> "focus-within-pseudo-class", title |-> "string", description |-> "string",
     specification |-> "string", stage |-> 2],
    [id |-> "font-format-keywords", title |-> "string", description |-> "string",
     specification |-> "string", stage |-> 1],
    [id |-> "font-variant-property", title |-> "string", description |-> "string",
     specification |-> "string", stage |-> 4],
    [id |-> "gap-properties", title |-> "string", description |-> "string",
     specification |-> "string", stage |-> 3],
    [id |-> "gray-function", title |-> "string", description |-> "string",
     specification |-> "string", stage |-> -1],
    [id |-> "grid-layout", title |-> "string", description |-> "string",
     specification |-> "string", stage |-> 3],
    [id |-> "has-pseudo-class", title |-> "string", description |-> "string",
     specification |-> "string", stage |-> 2],
    [id |-> "hexadecimal-alpha-notation", title |-> "string", description |-> "string",
     specification |-> "string", stage |-> 2],
    [id |-> "hwb-function", title |-> "string", description |-> "string",
     specification |-> "string", stage |-> 2],
    [id |-> "ic-unit", title |-> "string", description |-> "string",
     specification |-> "string", stage |-> 2],
    [id |-> "image-set-function", title |-> "string", description |-> "string",
     specification |-> "string", stage |-> 2],
    [id |-> "in-out-of-range-pseudo-class", title |-> "string", description |-> "string",
     specification |-> "string", stage |-> 2],
    [id |-> "is-pseudo-class", title |-> "string", description |-> "string",
     specification |-> "string", stage |-> 2],
    [id |-> "lab-function", title |-> "string", description |-> "string",
     specification |-> "string", stage |-> 2],
    [id |-> "lch-function", title |-> "string", description |-> "string",
     specification |-> "string", stage |-> 2],
    [id |-> "logical-properties-and-values", title |-> "string", description |-> "string",
     specification |-> "string", stage |-> 2],
    [id |-> "matches-pseudo-class", title |-> "string", description |-> "string",
     specification |-> "string", stage |-> -1],
    [id |-> "media-query-ranges", title |-> "string", description |-> "string",
     specification |-> "string", stage |-> 3],
    [id |-> "nesting-rules", title |-> "string", description |-> "string",
     specification |-> "string", stage |-> 1],
    [id |-> "not-pseudo-class", title |-> "string", description |-> "string",
     specification |-> "string", stage |-> 2],
    [id |-> "overflow-property", title |-> "string", description |-> "string",
     specification |-> "string", stage |-> 2],
    [id |-> "overflow-wrap-property", title |-> "string", description |-> "string",
     specification |-> "string", stage |-> 2],
    [id |-> "overscroll-behavior-property", title |-> "string", description |-> "string",
     specification |-> "string", stage |-> 1],
    [id |-> "place-properties", title |-> "string", description |-> "string",
     specification |-> "string", stage |-> 2],
    [id |-> "prefers-color-scheme-query", title |-> "string", description |-> "string",
     specification |-> "string", stage |-> 1],
    [id |-> "prefers-reduced-motion-query", title |-> "string", description |-> "string",
     specification |-> "string", stage |-> 1],
    [id |-> "read-only-write-pseudo-class", title |-> "string", description |-> "string",
     specification |-> "string", stage |-> 2],
    [id |-> "rebeccapurple-color", title |-> "string", description |-> "string",
     specification |-> "string", stage |-> 2],
    [id |-> "system-ui-font-family", title |-> "string", description |-> "string",
     specification |-> "string", stage |-> 2],
    [id |-> "when-else-rules", title |-> "string", description |-> "string",
     specification |-> "string", stage |-> 0],
    [id |-> "where-pseudo-class", title |-> "string", description |-> "string",
     specification |-> "string", stage |-> 1]
>>

FeatureIds == {Features[i].id : i \in 1..Len(Features)}

\* What a consumer can ask for: the id of a feature, or another string.
QueryIds == FeatureIds \cup {"no-such-feature"}

\* features.filter(feature => feature.id === id), as indices into the list.
Features_filter(id) == {i \in 1..Len(Features) : Features[i].id = id}

\* A consumer looks a feature up by its id.
Features_find ==
    \E id \in QueryIds :
        /\ lookup' = [lookup EXCEPT !.query = id, !.found = Features_filter(id)]
        /\ UNCHANGED <<ngIfDir, ifLast, ngForDir, forLast, probe, ngDevMode, validation>>

\* A consumer reads the record at an index of the list.
Features_read ==
    \E index \in 1..Len(Features) :
        /\ lookup' = [lookup EXCEPT !.index = index, !.record = Features[index]]
        /\ UNCHANGED <<ngIfDir, ifLast, ngForDir, forLast, probe, ngDevMode, validation>>

InitFeatures ==
    lookup = [query |-> "none", found |-> {}, index |-> 1, record |-> Features[1]]

\* C16: every record has a string id, title, description and specification
\* and an integer stage from -1 to 4, and no two records have the same id, so
\* a lookup by id finds at most one record.
C16_FeatureRecords ==
    /\ lookup.record.id \in STRING
    /\ lookup.record.title = "string"
    /\ lookup.record.description = "string"
    /\ lookup.record.specification = "string"
    /\ lookup.record.stage \in Int
    /\ -1 <= lookup.record.stage /\ lookup.record.stage <= 4
    /\ Cardinality(lookup.found) <= 1
    /\ \A i \in 1..Len(Features) :
          Features[i].id = lookup.record.id => i = lookup.index

\* C16 witness: the last record of the list was read and found by its id.
C16_Witness ==
    /\ lookup.index = Len(Features)
    /\ lookup.record.stage = 1
    /\ lookup.query = lookup.record.id
    /\ lookup.found = {lookup.index}

(***************************************************************************)
(* Specifications                                                          *)
(***************************************************************************)
IdleNgForOf == ngForDir = "unused" /\ forLast = "unused" /\ ngDevMode = "unused"

IdleContext == probe = "unused"

IdleSchema == validation = "unused"

IdleFeatures == lookup = "unused"

InitIf == InitNgIf /\ IdleNgForOf /\ IdleContext /\ IdleSchema /\ IdleFeatures

NextIf == NgIf_ngIf \/ NgIf_ngIfThen \/ NgIf_ngIfElse

SpecNgIf == InitIf /\ [][NextIf]_vars

IdleNgIf == ngIfDir = "unused" /\ ifLast = "unused"

InitFor == InitNgForOf /\ IdleNgIf /\ IdleContext /\ IdleSchema /\ IdleFeatures

NextFor ==
    \/ NgForOf_ngForOf
    \/ Array_mutate
    \/ NgForOf_ngForTrackBy
    \/ NgForOf_ngForTemplate
    \/ NgForOf_ngDoCheck

SpecNgForOf == InitFor /\ [][NextFor]_vars

InitCtx == InitContext /\ IdleNgIf /\ IdleNgForOf /\ IdleSchema /\ IdleFeatures

NextCtx == Context_assign \/ Context_read

SpecContext == InitCtx /\ [][NextCtx]_vars

InitOptions == InitSchema /\ IdleNgIf /\ IdleNgForOf /\ IdleContext /\ IdleFeatures

NextOptions == Schema_validate

SpecSchema == InitOptions /\ [][NextOptions]_vars

InitList == InitFeatures /\ IdleNgIf /\ IdleNgForOf /\ IdleContext /\ IdleSchema

NextList == Features_find \/ Features_read

SpecFeatures == InitList /\ [][NextList]_vars

====
